---- MODULE Spec2Model ----
(***************************************************************************)
(* TrendZee: the live-data pipeline (fetchers, aggregator, reconciliation  *)
(* by source_id), the clear-non-manual maintenance operation and the       *)
(* AI-facing callers, modelled from the Python sources.                    *)
(*                                                                         *)
(* Conventions                                                             *)
(*   - scores are kept in tenths (95.0 is 950), so round(x, 1) is exact;   *)
(*   - titles and URLs are strings from a small alphabet; strip(),         *)
(*     lower() and len() are tabulated on it;                              *)
(*   - an md5 digest is the tuple of what was hashed (no collisions), and  *)
(*     a NULL source_id is the empty tuple.                                *)
(***************************************************************************)
EXTENDS Integers, Sequences, FiniteSets, TLC

VARIABLES
    store,      \* the Trend table: a set of rows
    nextId,     \* the table's AUTOINCREMENT counter
    now,        \* the clock read by auto_now / auto_now_add and by time.time()
    deps,       \* Comment and SavedTrend rows: a function trend id -> count
    run,        \* per process: the state of one invocation of Command.handle
    runsLeft,   \* how many more invocations may start
    prev,       \* the results and final store of the last completed solo run
    agg,        \* the state of one call of fetch_all_live_trends
    ai,         \* the last call of an AI-facing method and what it returned
    web         \* the last call of a query of TrendService or of a view, and its answer

vars == <<store, nextId, now, deps, run, runsLeft, prev, agg, ai, web>>

(***************************************************************************)
(* Bounds of the model.                                                    *)
(***************************************************************************)
MaxItems == 2       \* rows a provider returns to one fetcher call
MaxRuns == 2        \* invocations of the command in one behaviour
MaxDeps == 1        \* Comment / SavedTrend rows attached in one behaviour
MaxRequest == 2     \* length of the list of requested source names
MaxRank == 30       \* the largest rank index a candidate is built at
MaxPosts == 22      \* chatbot POSTs of the session in one behaviour
MaxClock == 91      \* the latest time, in seconds, a POST is made at

Null == <<>>

Min(a, b) == IF a <= b THEN a ELSE b
\* The first argument, whatever the second.
FirstOf(a, b) == a

Max(a, b) == IF a >= b THEN a ELSE b
Abs(a) == IF a >= 0 THEN a ELSE -a

\* seq[:n]
Take(seq, n) == SubSeq(seq, 1, Min(Len(seq), n))

(***************************************************************************)
(* Strings.  The raw titles a provider may send and what strip() and      *)
(* lower() make of them.                                                   *)
(***************************************************************************)
Strip(t) == IF t = " " THEN "" ELSE t

Lower(t) == IF t = "Ab" THEN "ab" ELSE t

\* len(url); "uLong" stands for a link of 250 characters.
UrlLen(u) == IF u = "uLong" THEN 250 ELSE Len(u)
\* URLField's max_length.
UrlMaxLength == 200

(***************************************************************************)
(* Normalization and scoring.                                              *)
(***************************************************************************)
\* A digest of the identifier alone, without the source in front.
MakeSourceIdNoSource(source, identifier) == <<"md5", "", identifier>>

\* hashlib.md5(f"{source}:{identifier}"): a collision-free digest of the pair.
MakeSourceId(source, identifier) == <<"md5", source, identifier>>

\* round(n / d, 0) for n >= 0, d > 0, half to even as Python's round().
RoundDiv(n, d) ==
    LET q == n \div d
        r == n % d
    IN  IF 2 * r < d THEN q
        ELSE IF 2 * r > d THEN q + 1
        ELSE IF q % 2 = 0 THEN q ELSE q + 1

\* _score_from_value, in tenths: round(min(value / max_value * 100, 100), 1).
\* value * 1000 / max_value is computed without the product when max_value
\* is a multiple of 1000, to stay within 32-bit arithmetic.
ScoreFromValue(value, max_value) ==
    IF max_value <= 0 THEN 500
    ELSE IF max_value % 1000 = 0
         THEN Min(RoundDiv(value, max_value \div 1000), 1000)
    ELSE Min(RoundDiv(value * 1000, max_value), 1000)

\* _classify_velocity, on a score in tenths.
\* Thresholds taken with > where the code has >=.
ClassifyVelocityStrict(score) ==
    IF score > 850 THEN "exploding"
    ELSE IF score > 600 THEN "rising"
    ELSE IF score > 300 THEN "steady"
    ELSE "declining"

ClassifyVelocity(score) ==
    IF score >= 850 THEN "exploding"
    ELSE IF score >= 600 THEN "rising"
    ELSE IF score >= 300 THEN "steady"
    ELSE "declining"

(***************************************************************************)
(* What a provider answers.  A row is one element of a provider's answer   *)
(* (a trending search, an article, a feed entry, a chart track): its raw   *)
(* title, its link, its listener and play counts; ok = FALSE is a row the  *)
(* fetcher's loop body raises on (a missing column, a null title, a        *)
(* non-numeric count).                                                     *)
(***************************************************************************)
RowG == [title |-> "Ab", link |-> "u1", val |-> 4500000, plays |-> 205, ok |-> TRUE]
RowD == [title |-> "ab", link |-> "uLong", val |-> 20000000, plays |-> 50, ok |-> TRUE]
RowB == [title |-> " ", link |-> "u2", val |-> 0, plays |-> 0, ok |-> TRUE]
RowM == [title |-> "ab", link |-> "u2", val |-> 0, plays |-> 0, ok |-> FALSE]

\* Sequences over S of length at most n.
SeqsUpTo(S, n) == UNION {[1..k -> S] : k \in 0..n}

\* The rows the loop body completes before one raises, and whether one does.
Raises(rows) == \E i \in 1..Len(rows) : ~rows[i].ok
FirstBad(rows) == IF Raises(rows)
                  THEN CHOOSE i \in 1..Len(rows) :
                           ~rows[i].ok /\ \A j \in 1..(i - 1) : rows[j].ok
                  ELSE Len(rows) + 1
BeforeRaise(rows) == SubSeq(rows, 1, FirstBad(rows) - 1)

\* What a fetcher call ends with: a returned list, or no return at all.
Returned(items) == [status |-> "ok", items |-> items]
Hung == [status |-> "hang", items |-> <<>>]
Escaped == [status |-> "raise", items |-> <<>>]

(***************************************************************************)
(* Google Trends.                                                          *)
(***************************************************************************)
GoogleCount == 20

GoogleCandidate(row, idx) ==
    LET title == Strip(row.title)
        score == Max(950 - idx * 35, 200)
    IN  [title |-> title, category |-> "other", platform |-> "twitter",
         description |-> title \o " is currently trending on Google Search",
         score |-> score, velocity |-> ClassifyVelocity(score),
         likes |-> 0, shares |-> 0, comments |-> 0,
         source |-> "google_trends",
         external_url |-> "trends.google.com/explore?q=" \o title,
         source_id |-> MakeSourceId("google_trends", Lower(title))]

\* The loop of lines 60-81: blank titles are skipped, the index still counts.
GoogleItems(rows) ==
    LET done == BeforeRaise(Take(rows, GoogleCount))
        all  == [i \in 1..Len(done) |-> GoogleCandidate(done[i], i - 1)]
    IN  SelectSeq(all, LAMBDA c : c.title # "")

GoogleFetch(env) ==
    IF env.mode = "ok" THEN Returned(GoogleItems(env.rows))
    ELSE Returned(<<>>)

(***************************************************************************)
(* Stock market movers.  Prices are in cents and a percentage change is    *)
(* kept in hundredths of a percent; the quotes of the model divide evenly. *)
(***************************************************************************)
WATCHLIST == <<"AAPL", "MSFT", "GOOGL", "AMZN", "NVDA", "META", "TSLA",
               "BRK-B", "JPM", "V", "JNJ", "WMT", "PG", "MA", "UNH",
               "HD", "DIS", "NFLX", "PYPL", "AMD", "INTC", "CRM", "ORCL", "CSCO">>
NumSymbols == 2     \* the symbols of WATCHLIST the model quotes (a bound)
Watchlist == Take(WATCHLIST, NumSymbols)
StockCount == 15

\* What ticker.fast_info answers for one symbol.
QUp == [state |-> "ok", price |-> 10400, prev_close |-> 10000]
QDown == [state |-> "ok", price |-> 9500, prev_close |-> 10000]
QNoPrev == [state |-> "ok", price |-> 10400, prev_close |-> 0]
QMissing == [state |-> "missing", price |-> 0, prev_close |-> 0]
QRaises == [state |-> "raises", price |-> 0, prev_close |-> 0]

ChangePct(price, prev_close) ==
    IF prev_close > 0 THEN ((price - prev_close) * 10000) \div prev_close ELSE 0

\* Lines 114-134: one mover per symbol whose quote could be read.
Movers(quotes) ==
    LET all == [i \in 1..Len(Watchlist) |->
                   [symbol |-> Watchlist[i], price |-> quotes[i].price,
                    change_pct |-> ChangePct(quotes[i].price, quotes[i].prev_close),
                    kept |-> quotes[i].state = "ok"]]
    IN  SelectSeq(all, LAMBDA m : m.kept)

\* list.sort(key=abs(change_pct), reverse=True): stable, largest first.
RECURSIVE SortMovers(_)
\* The same insertion keyed on the signed change.
InsertMoverSigned(m, sorted) ==
    LET ahead == {i \in 1..Len(sorted) : sorted[i].change_pct >= m.change_pct}
        k == IF ahead = {} THEN 0 ELSE CHOOSE i \in ahead : \A j \in ahead : j <= i
    IN  SubSeq(sorted, 1, k) \o <<m>> \o SubSeq(sorted, k + 1, Len(sorted))

InsertMover(m, sorted) ==
    LET ahead == {i \in 1..Len(sorted) : Abs(sorted[i].change_pct) >= Abs(m.change_pct)}
        k == IF ahead = {} THEN 0 ELSE CHOOSE i \in ahead : \A j \in ahead : j <= i
    IN  SubSeq(sorted, 1, k) \o <<m>> \o SubSeq(sorted, k + 1, Len(sorted))
SortMovers(movers) ==
    IF movers = <<>> THEN <<>>
    ELSE InsertMover(movers[Len(movers)], SortMovers(SubSeq(movers, 1, Len(movers) - 1)))

\* The score without min(..., 99).
StockScoreUncapped(change) == RoundDiv(Abs(change) * 3, 2) + 400

StockScore(change) == Min(RoundDiv(Abs(change) * 3, 2) + 400, 990)

\* The velocity the generic classifier gives the candidate's score.
StockVelocityByScore(change) == ClassifyVelocity(StockScore(change))

\* Lines 144-151: the velocity of a mover, from its signed change.
StockVelocity(change) ==
    IF change > 300 THEN "exploding"
    ELSE IF change > 0 THEN "rising"
    ELSE IF change > -200 THEN "steady"
    ELSE "declining"

\* A source_id built from the symbol and the price of the moment.
StockSourceIdByPrice(m) == MakeSourceId("stocks", m.symbol \o ToString(m.price))

\* Line 167: the source_id of a mover is built from its symbol alone.
StockSourceId(m) == MakeSourceId("stocks", m.symbol)

StockCandidate(m) ==
    LET change == m.change_pct
        direction == IF change > 0 THEN "up" ELSE "down"
        text == m.symbol \o " " \o direction \o " " \o ToString(Abs(change))
                    \o " $" \o ToString(m.price)
    IN  [title |-> text, category |-> "business", platform |-> "twitter",
         description |-> text \o " is generating discussion",
         score |-> StockScore(change), velocity |-> StockVelocity(change),
         likes |-> 0, shares |-> 0, comments |-> 0,
         source |-> "stocks",
         external_url |-> "finance.yahoo.com/quote/" \o m.symbol,
         source_id |-> StockSourceId(m)]

\* Lines 137-168 for a given count: movers[:count] after the sort.
StockTop(quotes, count) ==
    LET top == Take(SortMovers(Movers(quotes)), count)
    IN  [i \in 1..Len(top) |-> StockCandidate(top[i])]

StockItems(quotes) == StockTop(quotes, StockCount)

StockFetch(env) ==
    IF env.mode = "ok" THEN Returned(StockItems(env.rows))
    ELSE Returned(<<>>)

(***************************************************************************)
(* Syndication feeds: feedparser.parse(url) is called without a timeout.   *)
(***************************************************************************)
NewsCount == 15

NewsRssCandidate(row, idx) ==
    LET title == Strip(row.title)
        score == Max(880 - idx * 40, 200)
    IN  [title |-> title, category |-> "other", platform |-> "twitter",
         description |-> "Top news story trending across platforms.",
         score |-> score, velocity |-> ClassifyVelocity(score),
         likes |-> 0, shares |-> 0, comments |-> 0,
         source |-> "news",
         external_url |-> row.link,
         source_id |-> MakeSourceId("news", Lower(title))]

NewsRssItems(entries, count) ==
    LET done == BeforeRaise(Take(entries, count))
    IN  [i \in 1..Len(done) |-> NewsRssCandidate(done[i], i - 1)]

\* NewsTrendsFetcher._fetch_rss_fallback
NewsRssFallback(env, count) ==
    IF env.feed = "hang" THEN Hung
    ELSE IF env.feed = "ok" THEN Returned(NewsRssItems(env.entries, count))
    ELSE Returned(<<>>)

NewsCandidate(row, idx) ==
    LET title == Strip(row.title)
        score == Max(900 - idx * 30, 250)
    IN  [title |-> title, category |-> "other", platform |-> "twitter",
         description |-> "Breaking news from News.",
         score |-> score, velocity |-> ClassifyVelocity(score),
         likes |-> 0, shares |-> 0, comments |-> 0,
         source |-> "news",
         external_url |-> row.link,
         source_id |-> MakeSourceId("news", Lower(title))]

NewsItems(rows, count) ==
    LET shown == Take(rows, count)
    IN  [i \in 1..Len(shown) |-> NewsCandidate(shown[i], i - 1)]

\* The except branch returning what the primary loop built, not the fallback.
NewsFetchNoFallback(env) ==
    IF env.mode = "no_cred" THEN NewsRssFallback(env, NewsCount)
    ELSE IF env.mode # "ok" THEN Returned(<<>>)
    ELSE Returned(NewsItems(BeforeRaise(env.rows), NewsCount))

\* NewsTrendsFetcher.fetch: requests.get(url, timeout=10) turns a provider
\* that never answers into an exception.
NewsFetch(env) ==
    IF env.mode = "no_cred" THEN NewsRssFallback(env, NewsCount)
    ELSE IF env.mode # "ok" \/ Raises(Take(env.rows, NewsCount))
         THEN NewsRssFallback(env, NewsCount)
    ELSE Returned(NewsItems(env.rows, NewsCount))

(***************************************************************************)
(* YouTube trending, through a Google News feed.                           *)
(***************************************************************************)
YouTubeCount == 15

YouTubeCandidate(row, idx) ==
    LET title == Strip(row.title)
        score == Max(850 - idx * 35, 200)
    IN  [title |-> title, category |-> "entertainment", platform |-> "youtube",
         description |-> "This video is trending on YouTube.",
         score |-> score, velocity |-> ClassifyVelocity(score),
         likes |-> 0, shares |-> 0, comments |-> 0,
         source |-> "youtube",
         external_url |-> row.link,
         source_id |-> MakeSourceId("youtube", Lower(title))]

YouTubeItems(entries) ==
    LET done == BeforeRaise(Take(entries, YouTubeCount))
    IN  [i \in 1..Len(done) |-> YouTubeCandidate(done[i], i - 1)]

\* The fetcher without its try / except: a failure leaves fetch() as an exception.
YouTubeFetchNoCatch(env) ==
    IF env.feed = "hang" THEN Hung
    ELSE IF env.feed = "ok" /\ ~Raises(Take(env.entries, YouTubeCount))
         THEN Returned(YouTubeItems(env.entries))
    ELSE Escaped

YouTubeFetch(env) ==
    IF env.feed = "hang" THEN Hung
    ELSE IF env.feed = "ok" THEN Returned(YouTubeItems(env.entries))
    ELSE Returned(<<>>)

(***************************************************************************)
(* Music charts.                                                           *)
(***************************************************************************)
MusicCount == 15
ListenerCeiling == 5000000

MusicRssCandidate(row, idx) ==
    LET title == Strip(row.title)
        score == Max(800 - idx * 40, 200)
    IN  [title |-> "music " \o title, category |-> "music", platform |-> "tiktok",
         description |-> "Music trend: " \o title,
         score |-> score, velocity |-> ClassifyVelocity(score),
         likes |-> 0, shares |-> 0, comments |-> 0,
         source |-> "music",
         external_url |-> row.link,
         source_id |-> MakeSourceId("music", Lower(title))]

MusicRssItems(entries, count) ==
    LET done == BeforeRaise(Take(entries, count))
    IN  [i \in 1..Len(done) |-> MusicRssCandidate(done[i], i - 1)]

\* MusicTrendsFetcher._fetch_rss_fallback
MusicRssFallback(env, count) ==
    IF env.feed = "hang" THEN Hung
    ELSE IF env.feed = "ok" THEN Returned(MusicRssItems(env.entries, count))
    ELSE Returned(<<>>)

MusicCandidate(row) ==
    LET name == row.title
        listeners == row.val
        playcount == row.plays
        score == Max(ScoreFromValue(listeners, ListenerCeiling), 200)
    IN  [title |-> "music " \o name \o " - Unknown", category |-> "music",
         platform |-> "tiktok",
         description |-> name \o " by Unknown is trending in global music charts.",
         score |-> score, velocity |-> ClassifyVelocity(score),
         likes |-> listeners, shares |-> playcount \div 10,
         comments |-> playcount \div 50,
         source |-> "music",
         external_url |-> row.link,
         source_id |-> MakeSourceId("music", "unknown:" \o Lower(name))]

MusicItems(rows, count) ==
    LET shown == Take(rows, count)
    IN  [i \in 1..Len(shown) |-> MusicCandidate(shown[i])]

MusicFetch(env) ==
    IF env.mode = "no_cred" THEN MusicRssFallback(env, MusicCount)
    ELSE IF env.mode # "ok" \/ Raises(Take(env.rows, MusicCount))
         THEN MusicRssFallback(env, MusicCount)
    ELSE Returned(MusicItems(env.rows, MusicCount))

(***************************************************************************)
(* The registry and the master fetcher.                                    *)
(***************************************************************************)
FETCHERS == <<"google_trends", "stocks", "news", "youtube", "music">>
Registered == {FETCHERS[i] : i \in 1..Len(FETCHERS)}

\* fetcher.fetch() for the class registered under `source`.
FetcherFetch(source, env) ==
    CASE source = "google_trends" -> GoogleFetch(env)
      [] source = "stocks" -> StockFetch(env)
      [] source = "news" -> NewsFetch(env)
      [] source = "youtube" -> YouTubeFetch(env)
      [] source = "music" -> MusicFetch(env)

(***************************************************************************)
(* Provider conditions of one fetcher call.                                *)
(*   stub    the registry entry is a class whose fetch() raises            *)
(*   mode    the primary path: "ok", "no_cred" (no API key), "no_lib" (an  *)
(*           optional library is not installed), "error" (network / HTTP / *)
(*           malformed answer), "hang" (the provider never answers)        *)
(*   feed    the syndication feed: "ok", "no_lib", "error", "hang"         *)
(*   rows    the primary answer; entries: the feed's                       *)
(***************************************************************************)
Env(stub, mode, feed, rows, entries) ==
    [stub |-> stub, mode |-> mode, feed |-> feed, rows |-> rows, entries |-> entries]

StubEnv == Env(TRUE, "ok", "ok", <<>>, <<>>)
HasCredential(source) == source \in {"news", "music"}

FeedConditions(rowLists) ==
    {[feed |-> "ok", entries |-> e] : e \in rowLists}
        \cup {[feed |-> f, entries |-> <<>>] : f \in {"no_lib", "error", "hang"}}

\* Every condition of a call of `source` whose answers come from rowLists
\* (quoteLists for the stock quotes).  A path that is not taken has no answer.
Envs(source, rowLists, quoteLists) ==
    LET feeds == FeedConditions(rowLists)
        failing == {"no_lib", "error", "hang"}
                       \cup (IF HasCredential(source) THEN {"no_cred"} ELSE {})
    IN  CASE source = "stocks" ->
                {Env(FALSE, "ok", "ok", q, <<>>) : q \in quoteLists}
                    \cup {Env(FALSE, m, "ok", <<>>, <<>>) : m \in failing}
          [] source = "google_trends" ->
                {Env(FALSE, "ok", "ok", r, <<>>) : r \in rowLists}
                    \cup {Env(FALSE, m, "ok", <<>>, <<>>) : m \in failing}
          [] source = "youtube" ->
                {Env(FALSE, "ok", f.feed, <<>>, f.entries) : f \in feeds}
          [] OTHER ->
                {Env(FALSE, "ok", "ok", r, <<>>) : r \in {x \in rowLists : ~Raises(x)}}
                    \cup {Env(FALSE, "ok", f.feed, r, f.entries) :
                              r \in {x \in rowLists : Raises(x)}, f \in feeds}
                    \cup {Env(FALSE, m, f.feed, <<>>, f.entries) :
                              m \in failing, f \in feeds}

\* The conditions SpecFetch draws from.
FetchRows == SeqsUpTo({RowG, RowD, RowB, RowM}, MaxItems)
FetchQuotes == [1..NumSymbols -> {QUp, QDown, QNoPrev, QMissing, QRaises}]
FetchEnvs == [source \in {"google_trends", "stocks", "news", "youtube", "music"} |->
                 Envs(source, FetchRows, FetchQuotes)]

\* The conditions SpecAgg draws from: one of each outcome.
AggEnvs ==
    [source \in {"google_trends", "stocks", "news", "youtube", "music"} |->
        {StubEnv,
         Env(FALSE, "error", "error", <<>>, <<>>),
         Env(FALSE, "error", "hang", <<>>, <<>>),
         IF source = "stocks"
            THEN Env(FALSE, "ok", "ok", [i \in 1..NumSymbols |-> QUp], <<>>)
            ELSE Env(FALSE, "ok", "ok", <<RowG>>, <<RowG>>)}]

(***************************************************************************)
(* fetch_all_live_trends.  `results` is a dict: a sequence of key / value  *)
(* pairs in insertion order.                                               *)
(***************************************************************************)
DictHas(d, k) == \E i \in 1..Len(d) : d[i].key = k
DictGet(d, k) == (CHOOSE i \in 1..Len(d) : d[i].key = k)
DictVal(d, k) == d[DictGet(d, k)].val
DictSet(d, k, v) ==
    IF DictHas(d, k) THEN [d EXCEPT ![DictGet(d, k)].val = v]
    ELSE Append(d, [key |-> k, val |-> v])

\* The call of line 448 under `env`.  A stand-in registered in place of a
\* fetcher either raises or, in mode "canned", returns the list it was given.
CallFetcher(source, env) ==
    IF env.stub
    THEN IF env.mode = "canned" THEN Returned(env.rows) ELSE Escaped
    ELSE FetcherFetch(source, env)

\* Lines 447-451: what the try / except makes of a call that came back.
AggHandleNoTry(out) ==
    [raised |-> out.status = "raise", entry |-> out.items]
AggHandle(out) ==
    [raised |-> FALSE, entry |-> IF out.status = "raise" THEN <<>> ELSE out.items]

NoCall == [source |-> "", env |-> StubEnv, out |-> Escaped, live |-> FALSE]
AggIdle == [pc |-> "idle", sources |-> <<>>, i |-> 0, results |-> <<>>,
            call |-> NoCall, returned |-> <<>>]

Names == Registered \cup {"bogus"}
\* The requests SpecAgg draws from, and SpecFetch's: one source.
AggRequests == SeqsUpTo(Names, MaxRequest) \ {<<>>}
FetchRequests == {<<s>> : s \in Registered}

AggStart(requests) ==
    /\ agg.pc = "idle"
    /\ \E req \in requests :
          agg' = [AggIdle EXCEPT !.pc = "loop", !.sources = req, !.i = 1]
    /\ UNCHANGED <<store, nextId, now, deps, run, runsLeft, prev, ai, web>>

\* FETCHERS[source] in place of FETCHERS.get(source): an unknown name is a
\* KeyError that leaves the function.
AggFailUnknown ==
    /\ agg.pc = "loop"
    /\ agg.i <= Len(agg.sources)
    /\ agg.sources[agg.i] \notin Registered
    /\ agg' = [agg EXCEPT !.pc = "raised"]
    /\ UNCHANGED <<store, nextId, now, deps, run, runsLeft, prev, ai, web>>

\* Lines 452-453: an unknown name is logged and skipped.
AggSkipUnknown ==
    /\ agg.pc = "loop"
    /\ agg.i <= Len(agg.sources)
    /\ agg.sources[agg.i] \notin Registered
    /\ agg' = [agg EXCEPT !.i = @ + 1]
    /\ UNCHANGED <<store, nextId, now, deps, run, runsLeft, prev, ai, web>>

\* Line 448, entered: the fetcher runs under some provider conditions.
AggCall(envsOf) ==
    /\ agg.pc = "loop"
    /\ agg.i <= Len(agg.sources)
    /\ agg.sources[agg.i] \in Registered
    /\ \E env \in envsOf[agg.sources[agg.i]] :
          agg' = [agg EXCEPT !.pc = "waiting",
                             !.call = [source |-> agg.sources[agg.i], env |-> env,
                                       out |-> Escaped, live |-> FALSE]]
    /\ UNCHANGED <<store, nextId, now, deps, run, runsLeft, prev, ai, web>>

\* Lines 448-451: the call comes back (it never does from a provider that
\* hangs on a call without a timeout) and its entry is recorded.
AggReturn ==
    /\ agg.pc = "waiting"
    /\ LET out == CallFetcher(agg.call.source, agg.call.env)
           h == AggHandle(out)
       IN  /\ out.status # "hang"
           /\ agg' = [agg EXCEPT
                        !.pc = IF h.raised THEN "raised" ELSE "loop",
                        !.i = IF h.raised THEN @ ELSE @ + 1,
                        !.results = IF h.raised THEN @
                                    ELSE DictSet(@, agg.call.source, h.entry),
                        !.call.out = out,
                        !.call.live = TRUE,
                        !.returned = DictSet(@, agg.call.source, out)]
    /\ UNCHANGED <<store, nextId, now, deps, run, runsLeft, prev, ai, web>>

\* Line 455.
AggDone ==
    /\ agg.pc = "loop"
    /\ agg.i > Len(agg.sources)
    /\ agg' = [agg EXCEPT !.pc = "done"]
    /\ UNCHANGED <<store, nextId, now, deps, run, runsLeft, prev, ai, web>>

AiIdle == [pc |-> "idle"]
\* No query and no request has been served yet.
WebIdle == [op |-> "none"]

(***************************************************************************)
(* The database: the Trend table, and the Comment and SavedTrend rows      *)
(* that reference a Trend with on_delete=CASCADE.                          *)
(***************************************************************************)
\* A Trend row as seed_trends leaves it: source defaults to 'manual',
\* source_id and external_url to NULL.
ManualTrend(id, title) ==
    [id |-> id, title |-> title, category |-> "tech", platform |-> "twitter",
     description |-> "seeded", score |-> 982, velocity |-> "exploding",
     likes |-> 10, shares |-> 5, comments |-> 1,
     source |-> "manual", external_url |-> "", source_id |-> Null,
     created_at |-> 0, updated_at |-> 0]

ManualTrends == {ManualTrend(1, "seed one"), ManualTrend(2, "seed two")}

\* The fields update_or_create receives as defaults (a candidate without
\* its source_id).
MutableFields ==
    {"title", "category", "platform", "description", "score", "velocity",
     "likes", "shares", "comments", "source", "external_url"}

\* A source_id column on which no row is ever matched: neither the lookup
\* nor the unique index sees the row that is there.
MatchingNone(st, sid) == {}

\* The rows filter(source_id=sid) selects.
Matching(st, sid) == {r \in st : r.source_id = sid}

\* A source_id column without unique=True.
NoUniqueConstraint(st, sid) == FALSE

\* unique=True on source_id: an INSERT of sid is refused (IntegrityError)
\* while a row with that source_id exists.  NULLs never collide.
UniqueViolation(st, sid) == sid # Null /\ Matching(st, sid) # {}

\* A write the database refuses (DataError): external_url is a varchar of
\* max_length characters.  A database that does not enforce the length
\* stores such a row like any other row.
WriteFails(c) == UrlLen(c.external_url) > UrlMaxLength

\* A save that also restamps created_at (auto_now in place of auto_now_add).
UpdatedRowRestamped(r, c, t) ==
    [f \in DOMAIN r |->
        IF f \in MutableFields THEN c[f]
        ELSE IF f \in {"updated_at", "created_at"} THEN t
        ELSE r[f]]

\* A save that leaves updated_at alone (no auto_now).
UpdatedRowUnstamped(r, c, t) ==
    [f \in DOMAIN r |-> IF f \in MutableFields THEN c[f] ELSE r[f]]

\* Model.save() of a fetched row after setattr of every default:
\* auto_now sets updated_at; id and created_at are not assigned.
UpdatedRow(r, c, t) ==
    [f \in DOMAIN r |->
        IF f \in MutableFields THEN c[f]
        ELSE IF f = "updated_at" THEN t
        ELSE r[f]]

\* Trend.objects.create(source_id=..., **defaults): a fresh id, and
\* auto_now_add / auto_now set both timestamps.
CreatedRow(id, c, t) ==
    [id |-> id, title |-> c.title, category |-> c.category,
     platform |-> c.platform, description |-> c.description,
     score |-> c.score, velocity |-> c.velocity,
     likes |-> c.likes, shares |-> c.shares, comments |-> c.comments,
     source |-> c.source, external_url |-> c.external_url,
     source_id |-> c.source_id, created_at |-> t, updated_at |-> t]

\* Trend.objects.all(): a clear that does not look at the source.
NonManualAll(st) == st

\* Trend.objects.exclude(source='manual')
NonManual(st) == {r \in st : r.source # "manual"}

RECURSIVE SumOver(_, _)
SumOver(f, S) ==
    IF S = {} THEN 0
    ELSE LET x == CHOOSE y \in S : TRUE IN f[x] + SumOver(f, S \ {x})

\* QuerySet.delete(): the rows go, the rows that reference them go with
\* them, and the first component of the result is the total number of
\* objects deleted, the cascaded ones included.
DeleteNonManual(st, dp) ==
    LET gone == {r.id : r \in NonManual(st)}
    IN  [deleted |-> Cardinality(gone) + SumOver(dp, gone),
         store |-> st \ NonManual(st),
         deps |-> [i \in DOMAIN dp \ gone |-> dp[i]]]

Procs == {1, 2}
Other(p) == 3 - p

NoPrev == [valid |-> FALSE, results |-> <<>>, store |-> {}]

\* A process that is not running the command.
NoRun ==
    [pc |-> "idle", clear |-> FALSE, deleted |-> 0, before |-> 0,
     results |-> <<>>, base |-> {}, start |-> {}, counts |-> <<>>,
     si |-> 1, ci |-> 1,
     created |-> 0, updated |-> 0, errors |-> 0, skipped |-> 0,
     total_created |-> 0, total_updated |-> 0, reported |-> 0,
     raced |-> FALSE, solo |-> TRUE, replay |-> FALSE]

\* The database after seed_trends, before any run of the pipeline.
InitOther ==
    /\ store = ManualTrends
    /\ nextId = 3
    /\ now = 1
    /\ deps = [i \in {1, 2} |-> 0]
    /\ run = [p \in Procs |-> NoRun]
    /\ runsLeft = MaxRuns
    /\ prev = NoPrev

InitAgg == InitOther /\ agg = AggIdle /\ ai = AiIdle /\ web = WebIdle

NextAgg ==
    \/ AggStart(AggRequests)
    \/ AggSkipUnknown
    \/ AggCall(AggEnvs)
    \/ AggReturn
    \/ AggDone

SpecAgg == InitAgg /\ [][NextAgg]_vars

NextFetch ==
    \/ AggStart(FetchRequests)
    \/ AggCall(FetchEnvs)
    \/ AggReturn
    \/ AggDone

SpecFetch == InitAgg /\ [][NextFetch]_vars

(***************************************************************************)
(* Claims about the aggregator and the fetchers.                           *)
(***************************************************************************)
Requested(s) == \E i \in 1..Len(agg.sources) : agg.sources[i] = s

\* C4: fetch_all_live_trends never raises; when it is done, every requested
\* registered source has an entry: the empty list if its fetcher raised, and
\* otherwise exactly the list its fetcher returned, wherever the raising
\* source stood in the request.
C4_AggregatorIsolates ==
    /\ agg.pc # "raised"
    /\ agg.pc = "done" =>
          \A s \in Registered : Requested(s) =>
              /\ DictHas(agg.results, s)
              /\ DictHas(agg.returned, s)
              /\ DictVal(agg.results, s) =
                    IF DictVal(agg.returned, s).status = "raise" THEN <<>>
                    ELSE DictVal(agg.returned, s).items

\* A finished call in which the first source raised and a later one came
\* back with candidates.
C4_Witness ==
    /\ agg.pc = "done"
    /\ Len(agg.sources) = 2
    /\ agg.sources[1] \in Registered /\ agg.sources[2] \in Registered
    /\ agg.sources[1] # agg.sources[2]
    /\ DictVal(agg.returned, agg.sources[1]).status = "raise"
    /\ DictVal(agg.results, agg.sources[1]) = <<>>
    /\ DictVal(agg.results, agg.sources[2]) # <<>>

\* The rows of the answer the call's last loop read before one made it raise.
RowsRead(call) ==
    IF call.source = "stocks" THEN Len(call.env.rows)
    ELSE Max(Len(call.env.rows), Len(call.env.entries))

\* C5: a fetcher's fetch() never raises past its own boundary: under a
\* missing credential, a missing library, a network error or a malformed
\* answer it returns a list of candidates of its own source, no longer than
\* the answer it read.
C5_FetchersNeverRaise ==
    (agg.call.live /\ ~agg.call.env.stub) =>
        /\ agg.call.out.status = "ok"
        /\ Len(agg.call.out.items) <= RowsRead(agg.call)
        /\ \A i \in 1..Len(agg.call.out.items) :
               agg.call.out.items[i].source = agg.call.source

\* A fetcher whose loop raised on its second row came back with the
\* candidate it had built from the first.
C5_Witness ==
    /\ agg.call.live
    /\ agg.call.source = "youtube"
    /\ agg.call.env.entries = <<RowG, RowM>>
    /\ agg.call.out.status = "ok"
    /\ Len(agg.call.out.items) = 1

\* C6: NewsTrendsFetcher.fetch, with no credential or with a primary call
\* that fails in any way, returns exactly the list of the syndication
\* fallback (empty when the fallback fails too); it does not raise and every
\* candidate has source "news".
C6_NewsFallback ==
    (agg.call.live /\ agg.call.source = "news" /\ ~agg.call.env.stub) =>
        LET env == agg.call.env
            out == agg.call.out
            primaryFails == env.mode # "ok" \/ Raises(Take(env.rows, NewsCount))
        IN  /\ out.status = "ok"
            /\ \A i \in 1..Len(out.items) : out.items[i].source = "news"
            /\ primaryFails =>
                  out.items = IF env.feed = "ok"
                              THEN NewsRssItems(env.entries, NewsCount)
                              ELSE <<>>

\* The headlines call failed after the loop had built a candidate, and the
\* result is the fallback's list.
C6_Witness ==
    /\ agg.call.live
    /\ agg.call.source = "news"
    /\ agg.call.env.mode = "ok"
    /\ agg.call.env.rows = <<RowG, RowM>>
    /\ agg.call.env.feed = "ok"
    /\ Len(agg.call.out.items) = 2
    /\ agg.call.out.items[1].score = 880

\* C8: a run is never blocked for good: every network call carries a
\* timeout, so a fetcher call that was entered comes back.
C8_EveryCallComesBack == agg.pc = "waiting" => ENABLED AggReturn

(***************************************************************************)
(* The AI service layer.  The generator's answer for each model tried:     *)
(* "text", "empty" (an empty text), "quota" (an error naming               *)
(* ResourceExhausted or 429), "fail" (any other error).                    *)
(***************************************************************************)
QuotaSentinel == "__QUOTA_EXHAUSTED__"
NoneResult == "<None>"
ModelsToTry == <<"gemini-2.0-flash", "gemini-1.5-flash", "gemini-pro">>
ModelAnswers == {"text", "empty", "quota", "fail"}

\* The loop of lines 29-50 from model k on.
RECURSIVE TryModels(_, _)
TryModels(answers, k) ==
    IF k > Len(ModelsToTry) THEN NoneResult
    ELSE IF answers[k] = "text" THEN "generated text"
    ELSE IF answers[k] = "empty" THEN ""
    ELSE IF answers[k] = "quota" THEN QuotaSentinel
    ELSE TryModels(answers, k + 1)

\* _call_gemini
CallGemini(lib, answers) == IF ~lib THEN NoneResult ELSE TryModels(answers, 1)

\* Python's truth value of a result.
Falsy(result) == result = NoneResult \/ result = ""

MockExplanation == "mock explanation"
MockExplanationQuota == "mock explanation, quota exhausted footer"
MockInsights == "mock creator insights"
MockChat == "mock chatbot response"
Refusal == "I can only answer questions related to trend data"
QuotaMessage == "The AI service has reached its daily usage limit"
TroubleMessage == "I'm having trouble processing your request right now"

\* GeminiService.explain_trend
ExplainTrend(key, result) ==
    IF ~key THEN MockExplanation
    ELSE IF result = QuotaSentinel THEN MockExplanationQuota
    ELSE IF Falsy(result) THEN MockExplanation ELSE result

\* GeminiService.get_creator_insights
GetCreatorInsights(key, result) ==
    IF ~key THEN MockInsights
    ELSE IF Falsy(result) THEN MockInsights ELSE result

\* GeminiService.chatbot_response; relevant: the question names a trend
\* term; found: search_trends_for_context returned something.
ChatbotResponse(key, relevant, found, result) ==
    IF ~relevant /\ ~found THEN Refusal
    ELSE IF ~key THEN MockChat
    ELSE IF result = QuotaSentinel THEN QuotaMessage
    ELSE IF Falsy(result) THEN TroubleMessage ELSE result

AiMethods == {"explain_trend", "get_creator_insights", "chatbot_response"}

\* Whether the method reaches _call_gemini.
CallsGemini(c) ==
    /\ c.key
    /\ c.method = "chatbot_response" => (c.relevant \/ c.found)

AiCall ==
    /\ ai.pc \in {"idle", "returned"}
    /\ \E m \in AiMethods, key \in BOOLEAN, lib \in BOOLEAN,
          answers \in [1..Len(ModelsToTry) -> ModelAnswers],
          relevant \in BOOLEAN, found \in BOOLEAN :
          /\ m # "chatbot_response" => (relevant /\ found)
          /\ ai' = [pc |-> "called", method |-> m, key |-> key, lib |-> lib,
                    answers |-> answers, relevant |-> relevant, found |-> found,
                    gemini |-> "not called", result |-> ""]
    /\ UNCHANGED <<store, nextId, now, deps, run, runsLeft, prev, agg, web>>

AiReturn ==
    /\ ai.pc = "called"
    /\ LET g == IF CallsGemini(ai) THEN CallGemini(ai.lib, ai.answers)
                ELSE "not called"
       IN  ai' = [ai EXCEPT
                    !.pc = "returned",
                    !.gemini = g,
                    !.result =
                        CASE ai.method = "explain_trend" -> ExplainTrend(ai.key, g)
                          [] ai.method = "get_creator_insights" ->
                                GetCreatorInsights(ai.key, g)
                          [] OTHER ->
                                ChatbotResponse(ai.key, ai.relevant, ai.found, g)]
    /\ UNCHANGED <<store, nextId, now, deps, run, runsLeft, prev, agg, web>>

InitAI == InitOther /\ agg = AggIdle /\ ai = AiIdle /\ web = WebIdle

NextAI == AiCall \/ AiReturn

SpecAI == InitAI /\ [][NextAI]_vars

Canned == {MockExplanation, MockExplanationQuota, MockInsights, MockChat,
           Refusal, QuotaMessage, TroubleMessage}

\* C9: every AI-facing caller answers the generator outcomes QUOTA_EXHAUSTED
\* and unavailable with a canned text, and never hands the raw quota
\* sentinel to its consumer.
C9_CallersFallBack ==
    ai.pc = "returned" =>
        /\ ai.result # QuotaSentinel
        /\ ai.gemini \in {QuotaSentinel, NoneResult} => ai.result \in Canned

(***************************************************************************)
(* The management command fetch_live_trends: Command.handle.               *)
(***************************************************************************)
\* fetch_all_live_trends(sources), from the first call to the returned
\* dict, when no call hangs.
RECURSIVE FetchAllFrom(_, _, _, _)
FetchAllFrom(sources, envOf, k, results) ==
    IF k > Len(sources) THEN results
    ELSE IF sources[k] \in Registered
         THEN FetchAllFrom(sources, envOf, k + 1,
                  DictSet(results, sources[k],
                      AggHandle(CallFetcher(sources[k], envOf[sources[k]])).entry))
    ELSE FetchAllFrom(sources, envOf, k + 1, results)

FetchAll(sources, envOf) == FetchAllFrom(sources, envOf, 1, <<>>)

\* The sources and provider answers the runs draw from.  RowG and RowD carry
\* the same title up to case, hence the same source_id; RowD's link is too
\* long to store.
PipeRows == {<<>>, <<RowG>>, <<RowD>>, <<RowG, RowG>>}
PipeQuotes == {[i \in 1..NumSymbols |-> IF i = 1 THEN q ELSE QMissing] : q \in {QUp, QDown}}
PipeEnvs ==
    [source \in {"stocks", "news"} |->
        IF source = "stocks"
        THEN {Env(FALSE, "ok", "ok", q, <<>>) : q \in PipeQuotes}
                 \cup {Env(FALSE, "error", "ok", <<>>, <<>>)}
        ELSE {Env(FALSE, "ok", "ok", r, <<>>) : r \in PipeRows}
                 \cup {Env(FALSE, "no_cred", "ok", <<>>, <<RowG>>)}]
PipeRequests == {<<"stocks">>, <<"news">>, <<"stocks", "news">>, <<"news", "stocks">>}

SeqRange(seq) == {seq[i] : i \in 1..Len(seq)}

\* One condition per requested source, drawn from envs.
EnvChoices(sources, envs) ==
    {f \in [SeqRange(sources) -> UNION {envs[s] : s \in SeqRange(sources)}] :
        \A s \in SeqRange(sources) : f[s] \in envs[s]}

Active(r) == r.pc \in {"loop", "creating"}

\* What a step of one process does to the record of the other: a run that
\* overlaps with a step of another run is no longer a solo run.
Disturb(r) == IF Active(r) THEN [r EXCEPT !.solo = FALSE] ELSE r

\* The candidate the loop is at, and the list it is in.
Items(r) == r.results[r.si].val
Candidate(r) == Items(r)[r.ci]
\* A loop without the `if not source_id: continue` guard.
AlwaysTruthy(sid) == TRUE

\* Python's truth value of the popped source_id (None and '' are both Null).
Truthy(sid) == sid # Null

\* A command that clears whether or not --clear was given.
ClearAlways(clear, st, dp) == DeleteNonManual(st, dp)

\* Lines 33-35: the clear happens only under --clear.
ClearIf(clear, st, dp) ==
    IF clear THEN DeleteNonManual(st, dp)
    ELSE [deleted |-> 0, store |-> st, deps |-> dp]

\* Lines 31-42: the optional clear, then the fetch.  The fetch does not read
\* the database, so it is taken at the moment of the clear.
StartRun(p, requests, envs) ==
    /\ ~Active(run[p])
    /\ runsLeft > 0
    /\ \E sources \in requests, clear \in BOOLEAN :
         \E envOf \in EnvChoices(sources, envs) :
           LET cleared == ClearIf(clear, store, deps)
               results == FetchAll(sources, envOf)
               alone == ~Active(run[Other(p)])
           IN  /\ store' = cleared.store
               /\ deps' = cleared.deps
               /\ run' = [run EXCEPT
                     ![p] = [NoRun EXCEPT
                         !.pc = "loop", !.clear = clear,
                         !.deleted = cleared.deleted,
                         !.before = Cardinality(NonManual(store)),
                         !.results = results,
                         !.base = store,
                         !.start = cleared.store,
                         !.solo = alone,
                         !.replay = /\ alone /\ ~clear /\ prev.valid
                                    /\ results = prev.results
                                    /\ store = prev.store],
                     ![Other(p)] = Disturb(@)]
    /\ runsLeft' = runsLeft - 1
    /\ UNCHANGED <<nextId, now, prev, agg, ai, web>>

\* The record of p after its candidate is dealt with.
Counted(r, field) == [r EXCEPT ![field] = @ + 1, !.ci = @ + 1, !.pc = "loop"]

\* A loop without try / except: the exception leaves handle and ends the
\* command.
Uncaught(r) == [r EXCEPT !.pc = "aborted"]

\* Lines 64-65: the exception of a failed upsert is caught and reported, and
\* the loop goes on.
Caught(r) == Counted(r, "errors")

\* The update branch of update_or_create: the row is locked, every default
\* is assigned and the row saved, in one transaction.
UpdateExisting(p, c, raced) ==
    IF WriteFails(c)
    THEN /\ run' = [run EXCEPT
                ![p] = [Caught(@) EXCEPT !.raced = @ \/ raced],
                ![Other(p)] = Disturb(@)]
         /\ UNCHANGED <<store, now>>
    ELSE /\ \E r \in Matching(store, c.source_id) :
              store' = (store \ {r}) \cup {UpdatedRow(r, c, now)}
         /\ now' = now + 1
         /\ run' = [run EXCEPT
                ![p] = [Counted(@, "updated") EXCEPT !.raced = @ \/ raced],
                ![Other(p)] = Disturb(@)]

\* Lines 48-55: pop source_id, skip the candidate without one, else look the
\* row up; a row that is there is updated, else the create is next.
Get(p) ==
    /\ run[p].pc = "loop"
    /\ run[p].si <= Len(run[p].results)
    /\ run[p].ci <= Len(Items(run[p]))
    /\ LET c == Candidate(run[p])
       IN  IF ~Truthy(c.source_id)
           THEN /\ run' = [run EXCEPT ![p] = Counted(@, "skipped"),
                                      ![Other(p)] = Disturb(@)]
                /\ UNCHANGED <<store, now>>
           ELSE IF Matching(store, c.source_id) # {}
           THEN UpdateExisting(p, c, FALSE)
           ELSE /\ run' = [run EXCEPT ![p].pc = "creating", ![Other(p)] = Disturb(@)]
                /\ UNCHANGED <<store, now>>
    /\ UNCHANGED <<nextId, deps, runsLeft, prev, agg, ai, web>>

\* The create branch: the INSERT; when the row has appeared meanwhile the
\* IntegrityError is caught, the row fetched and updated.
Create(p) ==
    /\ run[p].pc = "creating"
    /\ LET c == Candidate(run[p])
       IN  IF UniqueViolation(store, c.source_id)
           THEN /\ UpdateExisting(p, c, TRUE)
                /\ UNCHANGED <<nextId, deps>>
           ELSE IF WriteFails(c)
           THEN /\ run' = [run EXCEPT ![p] = Caught(@),
                                      ![Other(p)] = Disturb(@)]
                /\ UNCHANGED <<store, now, nextId, deps>>
           ELSE /\ store' = store \cup {CreatedRow(nextId, c, now)}
                /\ deps' = [i \in DOMAIN deps \cup {nextId} |->
                               IF i \in DOMAIN deps THEN deps[i] ELSE 0]
                /\ nextId' = nextId + 1
                /\ now' = now + 1
                /\ run' = [run EXCEPT ![p] = Counted(@, "created"),
                                      ![Other(p)] = Disturb(@)]
    /\ UNCHANGED <<runsLeft, prev, agg, ai, web>>

\* A loop that sets created and updated to 0 once, before the first source.
SourceDoneNoReset(r) ==
    [r EXCEPT !.total_created = @ + r.created,
              !.total_updated = @ + r.updated,
              !.counts = Append(@, [key |-> r.results[r.si].key,
                                    created |-> r.created,
                                    updated |-> r.updated]),
              !.si = @ + 1, !.ci = 1]

\* Lines 67-71 and, for the next source, 45-46: the counts of the source go
\* into the totals and into the report, and start again at 0.
SourceDone(r) ==
    [r EXCEPT !.total_created = @ + r.created,
              !.total_updated = @ + r.updated,
              !.counts = Append(@, [key |-> r.results[r.si].key,
                                    created |-> r.created,
                                    updated |-> r.updated]),
              !.created = 0, !.updated = 0,
              !.si = @ + 1, !.ci = 1]

\* Lines 67-71: the end of one source's list.
EndSource(p) ==
    /\ run[p].pc = "loop"
    /\ run[p].si <= Len(run[p].results)
    /\ run[p].ci > Len(Items(run[p]))
    /\ run' = [run EXCEPT
           ![p] = SourceDone(@),
           ![Other(p)] = Disturb(@)]
    /\ UNCHANGED <<store, nextId, now, deps, runsLeft, prev, agg, ai, web>>

\* Lines 73-76: the totals and Trend.objects.count().
Finish(p) ==
    /\ run[p].pc = "loop"
    /\ run[p].si > Len(run[p].results)
    /\ run' = [run EXCEPT
           ![p] = [@ EXCEPT !.pc = "done", !.reported = Cardinality(store)],
           ![Other(p)] = Disturb(@)]
    /\ prev' = IF run[p].solo
               THEN [valid |-> TRUE, results |-> run[p].results, store |-> store]
               ELSE NoPrev
    /\ UNCHANGED <<store, nextId, now, deps, runsLeft, agg, ai, web>>

\* views.add_comment / toggle_save_trend: a user attaches a Comment or a
\* SavedTrend row to a Trend.  It commutes with the steps of a run, so it
\* is taken between runs.
AddComment ==
    /\ \A p \in Procs : ~Active(run[p])
    /\ SumOver(deps, DOMAIN deps) < MaxDeps
    /\ \E id \in DOMAIN deps : deps' = [deps EXCEPT ![id] = @ + 1]
    /\ UNCHANGED <<store, nextId, now, run, runsLeft, prev, agg, ai, web>>

Init == InitOther /\ agg = AggIdle /\ ai = AiIdle /\ web = WebIdle

\* Runs one after the other.
Next ==
    \/ StartRun(1, PipeRequests, PipeEnvs)
    \/ Get(1)
    \/ Create(1)
    \/ EndSource(1)
    \/ Finish(1)
    \/ AddComment

Spec == Init /\ [][Next]_vars

(***************************************************************************)
(* Reconciliation.                                                         *)
(***************************************************************************)
\* C1: after any sequence of pipeline runs, and at every point inside one,
\* no two stored Trends share a non-empty source_id.
C1_UniqueSourceId ==
    \A r1 \in store, r2 \in store :
        (r1.source_id # Null /\ r1.source_id = r2.source_id) => r1 = r2

\* A second run has reconciled a source_id the first run stored.
C1_Witness ==
    /\ run[1].pc = "done"
    /\ run[1].total_updated >= 1
    /\ runsLeft = 0
    /\ \E r \in store : r.source_id # Null /\ r.updated_at > r.created_at

\* The fields C2 lists as overwritten.
ListedFields ==
    {"title", "score", "velocity", "description", "likes", "shares",
     "comments", "external_url"}

\* C2: a step that carries out the upsert of a candidate (it is counted as
\* created or updated) either inserts exactly one Trend, when the source_id
\* was not stored, or inserts nothing and overwrites the listed fields of
\* the Trend with that source_id, whose id and created_at stay; no other
\* Trend is touched.
C2_UpsertFrame ==
    [][\A p \in Procs :
        LET r0 == run[p]
            r1 == run'[p]
        IN  (/\ Active(r0)
             /\ r1.si = r0.si
             /\ r1.ci = r0.ci + 1
             /\ r1.created + r1.updated = r0.created + r0.updated + 1)
            => LET c == Candidate(r0)
                   seen == Matching(store, c.source_id)
               IN  IF seen = {}
                   THEN /\ r1.created = r0.created + 1
                        /\ \E n \in store' :
                             /\ n \notin store
                             /\ store' = store \cup {n}
                             /\ n.source_id = c.source_id
                             /\ \A r \in store : r.id # n.id
                             /\ \A f \in ListedFields : n[f] = c[f]
                   ELSE /\ r1.updated = r0.updated + 1
                        /\ \E r \in seen, n \in store' :
                             /\ store' = (store \ {r}) \cup {n}
                             /\ n.id = r.id
                             /\ n.created_at = r.created_at
                             /\ n.source_id = r.source_id
                             /\ \A f \in ListedFields : n[f] = c[f]
      ]_vars

\* One list has been reconciled half: its first candidate inserted, its
\* second one, of the same source_id, written over it.
C2_Witness ==
    /\ run[1].pc = "loop"
    /\ run[1].created = 1
    /\ run[1].updated = 1
    /\ \E r \in store : r.source_id # Null /\ r.updated_at > r.created_at

\* The candidates of a results dict, and those whose upsert goes through.
RECURSIVE AllCandidates(_)
AllCandidates(results) ==
    IF results = <<>> THEN <<>>
    ELSE Head(results).val \o AllCandidates(Tail(results))

Storable(c) == Truthy(c.source_id) /\ ~WriteFails(c)
StorableIn(results) == SelectSeq(AllCandidates(results), Storable)

\* The second of two solo runs over the same candidates, just finished.
Replayed(p) == run[p].pc = "done" /\ run[p].replay

\* C3 (as amended): when a run is repeated with exactly the same candidate set,
\* the second run leaves as many records as the first; it counts every
\* candidate whose upsert goes through as updated and none as created; every
\* record keeps its id and created_at, and every record reconciled from the
\* candidate set has a strictly greater updated_at.
C3_RepeatedRun ==
    \A p \in Procs : Replayed(p) =>
        /\ Cardinality(store) = Cardinality(run[p].base)
        /\ run[p].total_created = 0
        /\ run[p].total_updated = Len(StorableIn(run[p].results))
        /\ \A r \in store : \E r0 \in run[p].base :
               /\ r0.id = r.id
               /\ r0.created_at = r.created_at
               /\ (\E i \in 1..Len(StorableIn(run[p].results)) :
                       StorableIn(run[p].results)[i].source_id = r.source_id)
                  => r.updated_at > r0.updated_at

\* A repeated run that had two candidates to write again.
C3_Witness ==
    \E p \in Procs : Replayed(p) /\ run[p].total_updated >= 2

\* C3 as stated: on the second run every candidate is counted as updated.
C3_EveryCandidateUpdated ==
    \A p \in Procs : Replayed(p) =>
        /\ run[p].total_created = 0
        /\ run[p].total_updated = Len(AllCandidates(run[p].results))

(***************************************************************************)
(* Two runs at once.                                                       *)
(***************************************************************************)
ConcRequests == {<<"stocks">>}

NextConc ==
    \E p \in Procs :
        \/ StartRun(p, ConcRequests, PipeEnvs)
        \/ Get(p)
        \/ Create(p)
        \/ EndSource(p)
        \/ Finish(p)

SpecConc == Init /\ [][NextConc]_vars

SourceIds(results) ==
    {AllCandidates(results)[i].source_id : i \in 1..Len(AllCandidates(results))}

\* Two runs that overlapped and are both over.
BothDone == \A p \in Procs : run[p].pc = "done" /\ ~run[p].solo

\* C7: whatever the interleaving of two runs that upsert the same source_id,
\* when both are over exactly one Trend has that source_id, and its mutable
\* fields are those of one single candidate of one of the two runs.
C7_ConcurrentUpsert ==
    BothDone =>
        \A sid \in SourceIds(run[1].results) \cap SourceIds(run[2].results) :
            \E r \in store :
                /\ Matching(store, sid) = {r}
                /\ \E p \in Procs : \E i \in 1..Len(AllCandidates(run[p].results)) :
                       LET c == AllCandidates(run[p].results)[i]
                       IN  /\ c.source_id = sid
                           /\ \A f \in MutableFields : r[f] = c[f]

\* Both runs missed the row on lookup; one inserted it, the other ran into
\* the unique index, fetched the row and wrote over it.
C7_Witness ==
    /\ BothDone
    /\ \E p \in Procs :
         /\ run[p].total_created = 1
         /\ run[Other(p)].raced
         /\ run[Other(p)].total_updated = 1
         /\ run[p].results # run[Other(p)].results

(***************************************************************************)
(* Clearing.                                                               *)
(***************************************************************************)
\* C10: the number the clear reports is the number of Trends it deleted, the
\* stored Trends whose source is not 'manual' just before it, also when
\* Comment or SavedTrend rows are attached to them.
C10_ClearReportsTrends ==
    \A p \in Procs :
        (run[p].pc # "idle" /\ run[p].clear) => run[p].deleted = run[p].before

\* A run that has cleared (or not) and fetched, and has not yet looked at a
\* candidate.
JustStarted(p) == run[p].pc = "loop" /\ run[p].si = 1 /\ run[p].ci = 1

\* C11: right after the clear, the store is exactly the Trends that were
\* stored before it with source 'manual', each one as it was: every other
\* Trend is gone, no manual Trend is gone or changed.
C11_ClearFrame ==
    \A p \in Procs :
        (JustStarted(p) /\ run[p].clear /\ run[p].solo) =>
            store = {r \in run[p].base : r.source = "manual"}

\* A clear that found two sourced Trends beside the manual ones.
C11_Witness ==
    /\ JustStarted(1)
    /\ run[1].clear
    /\ Cardinality({r \in run[1].base : r.source # "manual"}) >= 2
    /\ Cardinality({r \in run[1].base : r.source = "manual"}) >= 2

TrendIds(st) == {r.id : r \in st}

\* The step in which p starts a run with --clear.
ClearStep(p) == ~Active(run[p]) /\ Active(run'[p]) /\ run'[p].clear

\* C12: no step of a run takes a Trend out of the store, unless it is the
\* clear of a run started with --clear: the ids stored after the step
\* include the ids stored before it, whatever was fetched and whichever
\* write failed.
C12_NoDeleteWithoutClear ==
    [][(\A p \in Procs : ~ClearStep(p)) => TrendIds(store) \subseteq TrendIds(store')]_vars

\* A run without --clear is over; it found a sourced Trend in the store, one
\* of its writes failed, and the store holds all the ids it held before.
C12_Witness ==
    /\ run[1].pc = "done"
    /\ ~run[1].clear
    /\ run[1].errors >= 1
    /\ \E r \in run[1].base : r.source # "manual"
    /\ TrendIds(run[1].base) \subseteq TrendIds(store)

(***************************************************************************)
(* Batches with candidates of every kind: one that is written, one whose   *)
(* write fails, one without source_id.  The shipped fetchers always set a  *)
(* source_id, so the last kind comes from a stand-in for the news fetcher. *)
(* News and YouTube build their identifiers alike, from the lowered title. *)
(***************************************************************************)
\* A candidate dict without the 'source_id' key (or with None or '').
WithoutId(c) == [c EXCEPT !.source_id = Null]

BatchEnvs ==
    [source \in {"news", "youtube"} |->
        IF source = "news"
        THEN {Env(FALSE, "ok", "ok", <<RowG>>, <<>>),
              Env(FALSE, "ok", "ok", <<RowD, RowG>>, <<>>),
              Env(TRUE, "canned", "ok",
                  <<WithoutId(NewsCandidate(RowG, 0)), NewsCandidate(RowG, 1)>>, <<>>)}
        ELSE {Env(FALSE, "ok", "ok", <<>>, <<RowG>>),
              Env(FALSE, "ok", "ok", <<>>, <<RowD>>)}]
BatchRequests == {<<"news">>, <<"news", "youtube">>, <<"youtube", "news">>}

NextBatch ==
    \/ StartRun(1, BatchRequests, BatchEnvs)
    \/ Get(1)
    \/ Create(1)
    \/ EndSource(1)
    \/ Finish(1)

SpecBatch == Init /\ [][NextBatch]_vars

\* C13: while and after a run without --clear reconciles, every Trend that
\* was stored without source_id when the run began is still stored with all
\* its fields, updated_at included, as they were.
C13_NoIdTrendsUntouched ==
    \A p \in Procs :
        (run[p].pc # "idle" /\ ~run[p].clear /\ run[p].solo) =>
            \A r \in run[p].base : r.source_id = Null => r \in store

\* A run without --clear is over: it met a candidate without source_id
\* while Trends without source_id were stored, and wrote another candidate.
C13_Witness ==
    /\ run[1].pc = "done"
    /\ ~run[1].clear
    /\ run[1].skipped >= 1
    /\ run[1].total_created + run[1].total_updated >= 1
    /\ \E r \in run[1].base : r.source_id = Null

\* p is at a candidate (the loop has not yet looked it up).
AtCandidate(p) ==
    /\ run[p].pc = "loop"
    /\ run[p].si <= Len(run[p].results)
    /\ run[p].ci <= Len(Items(run[p]))

\* The candidates of a results dict that carry no source_id.
NoId(c) == c.source_id = Null
WithoutIdIn(results) == SelectSeq(AllCandidates(results), NoId)

\* C14: the step that deals with a candidate without source_id changes no
\* Trend and no counter of created, updated or failed candidates, and leaves
\* the loop at the next candidate of the same list; a run that is over has
\* dealt with every candidate of its batch, those after a skipped one
\* included.
C14_SkipWithoutId ==
    [][\A p \in Procs :
        /\ (AtCandidate(p) /\ NoId(Candidate(run[p])) /\ run'[p] # run[p]) =>
               /\ store' = store
               /\ run'[p].created = run[p].created
               /\ run'[p].updated = run[p].updated
               /\ run'[p].errors = run[p].errors
               /\ run'[p].pc = "loop"
               /\ run'[p].si = run[p].si
               /\ run'[p].ci = run[p].ci + 1
        /\ (run'[p].pc = "done" /\ run'[p].solo) =>
               /\ run'[p].skipped = Len(WithoutIdIn(run'[p].results))
               /\ run'[p].total_created + run'[p].total_updated + run'[p].errors
                      = Len(AllCandidates(run'[p].results)) - run'[p].skipped
      ]_vars

\* A run is over that skipped a candidate without source_id and wrote the
\* candidate after it.
C14_Witness ==
    /\ run[1].pc = "done"
    /\ run[1].skipped = 1
    /\ run[1].errors = 0
    /\ run[1].total_created + run[1].total_updated = 1
    /\ Len(run[1].results) = 1
    /\ NoId(run[1].results[1].val[1])

\* p is about to carry out the upsert of a candidate whose write the
\* database refuses.
AtFailingWrite(p) ==
    /\ AtCandidate(p) \/ run[p].pc = "creating"
    /\ ~NoId(Candidate(run[p]))
    /\ WriteFails(Candidate(run[p]))

\* C15: the step in which the upsert of a candidate fails changes no Trend
\* and neither the created nor the updated counter, and leaves the loop at
\* the next candidate; a run that is over has counted, as created or
\* updated, every candidate of every source whose write does not fail,
\* those after a failed one included.
C15_FailureIsolated ==
    [][\A p \in Procs :
        /\ (AtFailingWrite(p) /\ run'[p] # run[p] /\ run'[p].pc # "creating") =>
               /\ store' = store
               /\ run'[p].created = run[p].created
               /\ run'[p].updated = run[p].updated
               /\ run'[p].errors = run[p].errors + 1
               /\ run'[p].pc = "loop"
               /\ run'[p].si = run[p].si
               /\ run'[p].ci = run[p].ci + 1
        /\ (run'[p].pc = "done" /\ run'[p].solo) =>
               run'[p].total_created + run'[p].total_updated
                   = Len(StorableIn(run'[p].results))
      ]_vars

\* A run is over whose first candidate failed to write; the candidate after
\* it and a candidate of the next source were written.
C15_Witness ==
    /\ run[1].pc = "done"
    /\ run[1].errors = 1
    /\ Len(run[1].counts) = 2
    /\ WriteFails(run[1].results[1].val[1])
    /\ run[1].counts[1].created + run[1].counts[1].updated = 1
    /\ run[1].counts[2].created + run[1].counts[2].updated = 1

(***************************************************************************)
(* The reconciliation loop of lines 44-71 as a function of the store and   *)
(* the results dict, for a run no other writer interferes with.  Ids and   *)
(* timestamps of the rows it builds are placeholders.                      *)
(***************************************************************************)
FreshId(st) == 1 + Cardinality(st) + SumOver([i \in TrendIds(st) |-> i], TrendIds(st))

\* Lines 49-65 for one candidate; w is the store and the two counters.
UpsertInto(w, c) ==
    IF ~Truthy(c.source_id) \/ WriteFails(c) THEN w
    ELSE IF Matching(w.store, c.source_id) # {}
    THEN LET r == CHOOSE x \in Matching(w.store, c.source_id) : TRUE
         IN  [w EXCEPT !.store = (@ \ {r}) \cup {UpdatedRow(r, c, 0)},
                       !.updated = @ + 1]
    ELSE [w EXCEPT !.store = @ \cup {CreatedRow(FreshId(w.store), c, 0)},
                   !.created = @ + 1]

RECURSIVE ReconcileList(_, _)
ReconcileList(w, items) ==
    IF items = <<>> THEN w
    ELSE ReconcileList(UpsertInto(w, Head(items)), Tail(items))

\* Lines 44-71: the store after the loops and the per-source counts.
RECURSIVE ReconcileAll(_, _, _)
ReconcileAll(st, results, counts) ==
    IF results = <<>> THEN [store |-> st, counts |-> counts]
    ELSE LET w == ReconcileList([store |-> st, created |-> 0, updated |-> 0],
                                Head(results).val)
         IN  ReconcileAll(w.store, Tail(results),
                 Append(counts, [key |-> Head(results).key,
                                 created |-> w.created, updated |-> w.updated]))

\* Stored Trends compared by source_id and mutable fields only.
Projected(st) ==
    {[f \in MutableFields \cup {"source_id"} |-> r[f]] : r \in st}

SameOutcome(a, b) ==
    /\ Projected(a.store) = Projected(b.store)
    /\ Cardinality(a.store) = Cardinality(b.store)
    /\ SeqRange(a.counts) = SeqRange(b.counts)

\* C16: for a results dict with two sources, reconciling the first source's
\* candidates before the second's leaves the same stored Trends (by
\* source_id and mutable fields) and the same per-source created / updated
\* counts as reconciling them in the other order, from every store a run can
\* start in; and what the loop of a solo run leaves and counts is what
\* ReconcileAll computes.
C16_SourcesCommute ==
    \A p \in Procs :
        /\ (JustStarted(p) /\ run[p].solo /\ Len(run[p].results) = 2) =>
               SameOutcome(
                   ReconcileAll(store, run[p].results, <<>>),
                   ReconcileAll(store, <<run[p].results[2], run[p].results[1]>>, <<>>))
        /\ (run[p].pc = "done" /\ run[p].solo) =>
               /\ SameOutcome([store |-> store, counts |-> run[p].counts],
                              ReconcileAll(run[p].start, run[p].results, <<>>))
               /\ run[p].counts = ReconcileAll(run[p].start, run[p].results, <<>>).counts

\* A run over two sources is over; it started from a store that already held
\* a Trend of each of them, and it both inserted and updated.
C16_Witness ==
    /\ run[1].pc = "done"
    /\ Len(run[1].results) = 2
    /\ \E r \in run[1].start : r.source = "news"
    /\ \E r \in run[1].start : r.source = "youtube"
    /\ run[1].total_updated >= 2

\* The stored market-movers Trends of one symbol (the quote page names it).
OfSymbol(st, symbol) ==
    {r \in st : r.source = "stocks"
                  /\ r.external_url = "finance.yahoo.com/quote/" \o symbol}

\* C17: whatever prices the runs so far have seen, the store holds at most
\* one market-movers Trend per watch-list symbol, and a market-movers
\* candidate just fetched carries the source_id of the stored Trend of its
\* symbol.
C17_StableSourceId ==
    /\ \A i \in 1..Len(Watchlist) : Cardinality(OfSymbol(store, Watchlist[i])) <= 1
    /\ \A p \in Procs :
         Active(run[p]) =>
            \A k \in 1..Len(AllCandidates(run[p].results)) :
                LET c == AllCandidates(run[p].results)[k]
                IN  \A r \in store :
                        (c.source = "stocks" /\ r.source = "stocks"
                             /\ r.external_url = c.external_url)
                        => r.source_id = c.source_id

\* A second run saw another price for a symbol and wrote it over the Trend
\* the first run had stored for that symbol.
C17_Witness ==
    \E r0 \in run[1].base, r \in store :
        /\ r.source = "stocks"
        /\ r.id = r0.id
        /\ r.title # r0.title
        /\ r.source_id = r0.source_id

RECURSIVE SumCreated(_)
SumCreated(counts) ==
    IF counts = <<>> THEN 0 ELSE Head(counts).created + SumCreated(Tail(counts))

RECURSIVE SumUpdated(_)
SumUpdated(counts) ==
    IF counts = <<>> THEN 0 ELSE Head(counts).updated + SumUpdated(Tail(counts))

\* C18: when a run that no other writer overlapped with is over, the totals
\* of created and updated are the sums of the per-source counts; for every
\* source, created + updated is the number of its candidates that have a
\* source_id and whose write did not fail; and the reported store size is
\* the size of the store when reconciliation began plus the total created.
C18_Totals ==
    \A p \in Procs :
        (run[p].pc = "done" /\ run[p].solo) =>
            /\ run[p].total_created = SumCreated(run[p].counts)
            /\ run[p].total_updated = SumUpdated(run[p].counts)
            /\ Len(run[p].counts) = Len(run[p].results)
            /\ \A k \in 1..Len(run[p].counts) :
                   /\ run[p].counts[k].key = run[p].results[k].key
                   /\ run[p].counts[k].created + run[p].counts[k].updated
                          = Len(SelectSeq(run[p].results[k].val, Storable))
            /\ run[p].reported = Cardinality(run[p].start) + run[p].total_created

\* A run over two sources is over that inserted and updated for both and
\* left out a candidate.
C18_Witness ==
    /\ run[1].pc = "done"
    /\ Len(run[1].counts) = 2
    /\ run[1].counts[1].created + run[1].counts[1].updated >= 1
    /\ run[1].counts[2].created + run[1].counts[2].updated >= 1
    /\ run[1].total_created >= 1
    /\ run[1].total_updated >= 1
    /\ run[1].errors + run[1].skipped >= 1

(***************************************************************************)
(* Scores and velocities of the candidates.                                *)
(***************************************************************************)
\* Provider values at, below and above what the scoring formulas cap or
\* floor: listener counts, and prices against a previous close.
ListenerValues == {0, 1, 1500000, 3000000, 4250000, 4500000, 5000000, 20000000}
PriceValues == {0, 1, 9500, 10000, 10400, 100000}
CloseValues == {0, 100, 10000}

\* The candidate each rank-scored path builds at index idx, the Last.fm
\* candidate for each listener count, and the market-movers candidate for
\* each price and previous close.
RankedCandidates ==
    UNION {{GoogleCandidate(RowG, idx), NewsCandidate(RowG, idx),
            NewsRssCandidate(RowG, idx), YouTubeCandidate(RowG, idx),
            MusicRssCandidate(RowG, idx)} : idx \in 0..MaxRank}
ValuedCandidates ==
    {MusicCandidate([RowG EXCEPT !.val = v]) : v \in ListenerValues}
QuotedCandidates ==
    {StockCandidate([symbol |-> "AAPL", price |-> pr,
                     change_pct |-> ChangePct(pr, cl), kept |-> TRUE]) :
        pr \in PriceValues, cl \in CloseValues}

\* The candidates the aggregator holds: those of the call that came back
\* and those already in the results dict.
Fetched ==
    SeqRange(AllCandidates(agg.results))
        \cup (IF agg.call.live THEN SeqRange(agg.call.out.items) ELSE {})

\* C19: every candidate a fetcher returns, on its primary or its fallback
\* path, and every candidate the scoring formulas build for a rank index up
\* to MaxRank, for a listener count from zero to beyond the ceiling and for a
\* price change of any size (a previous close of zero included), has a score
\* from 0 to 100.
C19_ScoreInRange ==
    \A c \in Fetched \cup RankedCandidates \cup ValuedCandidates \cup QuotedCandidates :
        0 <= c.score /\ c.score <= 1000

\* A market mover whose change is beyond what the formula caps has come back.
C19_Witness ==
    \E c \in Fetched : c.source = "stocks" /\ c.score = 990

\* C20: for every candidate not built by the market-movers fetcher, the
\* velocity follows from the score it carries: exploding iff score >= 85,
\* rising iff 60 <= score < 85, steady iff 30 <= score < 60, declining iff
\* score < 30.
C20_VelocityFromScore ==
    \A c \in Fetched \cup RankedCandidates \cup ValuedCandidates :
        c.source # "stocks" =>
            /\ c.velocity = "exploding" <=> c.score >= 850
            /\ c.velocity = "rising" <=> (600 <= c.score /\ c.score < 850)
            /\ c.velocity = "steady" <=> (300 <= c.score /\ c.score < 600)
            /\ c.velocity = "declining" <=> c.score < 300

\* A fetcher has returned a candidate whose score sits on a threshold.
C20_Witness ==
    \E c \in Fetched :
        c.source = "youtube" /\ c.score = 850 /\ c.velocity = "exploding"

(***************************************************************************)
(* The order of the market movers.                                         *)
(***************************************************************************)
\* The mover a market-movers candidate was built from: the one of its symbol.
MoverOf(c, movers) ==
    CHOOSE i \in 1..Len(movers) : StockSourceId(movers[i]) = c.source_id
AbsChange(c, movers) == Abs(movers[MoverOf(c, movers)].change_pct)

\* The candidates are built from distinct movers, none has a larger absolute
\* change than one before it, and no mover left out has a larger absolute
\* change than one returned.
LargestFirst(items, movers, count) ==
    /\ Len(items) = Min(Len(movers), count)
    /\ \A i \in 1..Len(items) :
          /\ \E k \in 1..Len(movers) : items[i] = StockCandidate(movers[k])
          /\ \A j \in 1..Len(items) :
                /\ i # j => items[i].source_id # items[j].source_id
                /\ i < j => AbsChange(items[i], movers) >= AbsChange(items[j], movers)
          /\ \A k \in 1..Len(movers) :
                (\A j \in 1..Len(items) : items[j].source_id # StockSourceId(movers[k]))
                    => AbsChange(items[i], movers) >= Abs(movers[k].change_pct)

\* C21: the market-movers fetcher returns its candidates ordered by absolute
\* percentage change descending, whatever the signs of the changes, and for
\* every count limit the candidates returned are the movers with the largest
\* absolute changes.
C21_MoversLargestFirst ==
    (agg.call.live /\ agg.call.source = "stocks" /\ ~agg.call.env.stub
         /\ agg.call.env.mode = "ok") =>
        LET quotes == agg.call.env.rows
            movers == Movers(quotes)
        IN  /\ LargestFirst(agg.call.out.items, movers, StockCount)
            /\ \A count \in 0..NumSymbols :
                   LargestFirst(StockTop(quotes, count), movers, count)

\* The first symbol of the watch list rose by 4 % and the second fell by
\* 5 %: the faller comes back first, and alone under a count of 1.
C21_Witness ==
    /\ agg.call.live /\ agg.call.source = "stocks"
    /\ agg.call.env.rows = <<QUp, QDown>>
    /\ Len(agg.call.out.items) = 2
    /\ agg.call.out.items[1].source_id = MakeSourceId("stocks", "MSFT")
    /\ agg.call.out.items[1].velocity = "declining"
    /\ Len(StockTop(agg.call.env.rows, 1)) = 1

(***************************************************************************)
(* Text: str.lower(), the `in` of two strings and str.split(), on ASCII.   *)
(***************************************************************************)
UpperLetters == "ABCDEFGHIJKLMNOPQRSTUVWXYZ"
LowerLetters == "abcdefghijklmnopqrstuvwxyz"

CharAt(s, i) == SubSeq(s, i, i)

LowerChar(ch) ==
    LET at == {i \in 1..Len(UpperLetters) : CharAt(UpperLetters, i) = ch}
    IN  IF at = {} THEN ch ELSE CharAt(LowerLetters, CHOOSE i \in at : TRUE)

RECURSIVE ToLower(_)
ToLower(s) ==
    IF s = "" THEN "" ELSE LowerChar(CharAt(s, 1)) \o ToLower(SubSeq(s, 2, Len(s)))

\* needle in hay
Substring(needle, hay) ==
    \E i \in 1..(Len(hay) - Len(needle) + 1) :
        SubSeq(hay, i, i + Len(needle) - 1) = needle

\* s.split(): the maximal runs of non-blank characters from position i on,
\* `word` being the run read so far.
RECURSIVE SplitFrom(_, _, _)
SplitFrom(s, i, word) ==
    LET closed == IF word = "" THEN <<>> ELSE <<word>>
    IN  IF i > Len(s) THEN closed
        ELSE IF CharAt(s, i) = " " THEN closed \o SplitFrom(s, i + 1, "")
        ELSE SplitFrom(s, i + 1, word \o CharAt(s, i))

Split(s) == SplitFrom(s, 1, "")

(***************************************************************************)
(* TrendService: the queries of the dashboard and of the chatbot.          *)
(***************************************************************************)
\* A LIKE that compares the characters as they are.
ContainsCase(text, search) == Substring(search, text)

\* field__icontains=search
IContains(text, search) == Substring(ToLower(search), ToLower(text))

\* The filters joined with OR in place of the chained .filter() calls.
MatchesAny(r, category, search, platform, source) ==
    \/ category # "" /\ r.category = category
    \/ platform # "" /\ r.platform = platform
    \/ source # "" /\ r.source = source
    \/ search # "" /\ (IContains(r.title, search) \/ IContains(r.description, search))

\* Lines 17-30: each filter is applied only when its argument is truthy.
Matches(r, category, search, platform, source) ==
    /\ category # "" => r.category = category
    /\ platform # "" => r.platform = platform
    /\ source # "" => r.source = source
    /\ search # "" => (IContains(r.title, search) \/ IContains(r.description, search))

\* order_by('-score') replaces Meta.ordering: ORDER BY score DESC and nothing
\* else, so rows of equal score come in whatever order the database reads them.
RECURSIVE ByScore(_)
ByScore(S) ==
    IF S = {} THEN {<<>>}
    ELSE LET top == {r \in S : \A other \in S : r.score >= other.score}
         IN  UNION {{<<r>> \o rest : rest \in ByScore(S \ {r})} : r \in top}

\* TrendService.get_filtered_trends: the lists the query can evaluate to.
GetFilteredTrends(st, category, search, platform, source) ==
    ByScore({r \in st : Matches(r, category, search, platform, source)})

\* The arguments the dashboard passes: absent, matching and not matching.
QueryCategories == {"", "business"}
QueryPlatforms == {"", "twitter", "tiktok"}
QuerySources == {"", "manual"}
QuerySearches == {"", "aapl", "ONE", "Discussion"}

\* DashboardView.get, lines 20-30.
FilterTrends ==
    /\ \E category \in QueryCategories, search \in QuerySearches,
          platform \in QueryPlatforms, source \in QuerySources :
         \E result \in GetFilteredTrends(store, category, search, platform, source) :
            web' = [op |-> "filter", category |-> category, search |-> search,
                    platform |-> platform, source |-> source,
                    rows |-> store, result |-> result]
    /\ UNCHANGED <<store, nextId, now, deps, run, runsLeft, prev, agg, ai>>

\* The dict search_trends_for_context makes of a row.
ContextOf(t) ==
    [title |-> t.title, category |-> t.category, platform |-> t.platform,
     description |-> Take(t.description, 300), score |-> t.score,
     velocity |-> t.velocity, likes |-> t.likes, shares |-> t.shares,
     comments |-> t.comments]

\* Lines 57-62: the OR over the keywords, ordered by score, cut at limit.
SearchMatching(st, keywords, limit) ==
    LET hit(r) == \E kw \in keywords :
                      \/ IContains(r.title, kw)
                      \/ IContains(r.description, kw)
                      \/ IContains(r.category, kw)
        rows == {r \in st : hit(r)}
    IN  {[i \in 1..Min(limit, Len(f)) |-> ContextOf(f[i])] : f \in ByScore(rows)}

\* The query without the early return: filter(Q()) restricts nothing.
SearchNoGuard(st, keywords, limit) ==
    IF keywords = {}
    THEN {[i \in 1..Min(limit, Len(f)) |-> ContextOf(f[i])] : f \in ByScore(st)}
    ELSE SearchMatching(st, keywords, limit)

\* TrendService.search_trends_for_context: the lists it can return.
SearchTrendsForContext(st, keywords, limit) ==
    IF keywords = {} THEN {<<>>}
    ELSE SearchMatching(st, keywords, limit)

SearchKeywords == {{}, {"aapl"}, {"business"}, {"seed", "zzz"}, {"zzz"}}
SearchLimits == {0, 1, 5}

\* A call of search_trends_for_context, as chatbot_response makes with limit 5.
SearchContext ==
    /\ \E keywords \in SearchKeywords, limit \in SearchLimits :
         \E result \in SearchTrendsForContext(store, keywords, limit) :
            web' = [op |-> "search", keywords |-> keywords, limit |-> limit,
                    rows |-> store, result |-> result]
    /\ UNCHANGED <<store, nextId, now, deps, run, runsLeft, prev, agg, ai>>

\* Lines 84-89 and 93-94.
TrendTerms ==
    {"trend", "trending", "viral", "popular", "hashtag", "engagement",
     "platform", "tiktok", "instagram", "twitter", "youtube", "reddit",
     "music", "entertainment", "sports", "technology", "fashion", "gaming",
     "content", "creator", "post", "reel", "video", "meme"}
Stopwords ==
    {"what", "how", "why", "when", "where", "is", "are", "the", "a", "an",
     "tell", "me", "about", "show", "can", "you", "give", "your", "its", "of"}
KeywordCap == 10

\* A list up to the order of its members: each member with the number of
\* times it occurs.
ListSize(l) == SumOver(l, DOMAIN l)

\* Lines 90-94: the vocabulary terms found in the lower-cased question, then
\* its words longer than 3 characters that are not stopwords.
KeywordList(question) ==
    LET question_lower == ToLower(question)
        words == Split(question_lower)
        terms == {term \in TrendTerms : Substring(term, question_lower)}
        kept == {i \in 1..Len(words) : Len(words[i]) > 3 /\ words[i] \notin Stopwords}
    IN  [k \in terms \cup {words[i] : i \in kept} |->
            (IF k \in terms THEN 1 ELSE 0) + Cardinality({i \in kept : words[i] = k})]

\* list(set(keywords)): every member once.
Distinct(l) == [k \in DOMAIN l |-> 1]

\* The list without the slice.
Uncut(l, n) == {l}

\* l[:n] of a list made from a set: a set lists its members in no
\* particular order, so any n of them can be the ones kept.
Cut(l, n) ==
    {[k \in kept |-> l[k]] :
        kept \in {K \in SUBSET DOMAIN l : Cardinality(K) = Min(n, Cardinality(DOMAIN l))}}

\* TrendService.extract_trend_keywords: the keyword lists it can return.
ExtractTrendKeywords(question) == Cut(Distinct(KeywordList(question)), KeywordCap)

\* The questions of the model: none, a greeting, a question with stopwords,
\* repeated words and upper case, and two with more than ten distinct
\* keywords.
Questions ==
    {"", "hi", "What is TRENDING on TikTok", "tell me about the trend trend",
     "TikTok music video meme creator gaming fashion sports posts reels",
     "TikTok music video meme creator gaming fashion sports posts reels fans"}

\* A call of extract_trend_keywords, as chatbot_response makes.
ExtractKeywords ==
    /\ web = WebIdle
    /\ \E question \in Questions :
         \E result \in ExtractTrendKeywords(question) :
            web' = [op |-> "keywords", question |-> question, result |-> result]
    /\ UNCHANGED <<store, nextId, now, deps, run, runsLeft, prev, agg, ai>>

NextKeywords == ExtractKeywords

SpecKeywords == Init /\ [][NextKeywords]_vars

\* The runs the queries are made after: two market movers, of equal or of
\* different scores.
QueryEnvs ==
    [source \in {"stocks"} |->
        {Env(FALSE, "ok", "ok", q, <<>>) :
            q \in {[i \in 1..NumSymbols |->
                       IF i = 1 THEN QUp ELSE IF i = 2 THEN second ELSE QMissing] :
                   second \in {QDown, QNoPrev}}}]
QueryRequests == {<<"stocks">>}

\* A query is one SELECT on the table as it stands, at any point of the
\* runs of the pipeline; a behaviour of this specification ends with the
\* one query whose answer `web` records.
NextQuery ==
    \/ web = WebIdle /\ StartRun(1, QueryRequests, QueryEnvs)
    \/ web = WebIdle /\ Get(1)
    \/ web = WebIdle /\ Create(1)
    \/ web = WebIdle /\ EndSource(1)
    \/ web = WebIdle /\ Finish(1)
    \/ web = WebIdle /\ FilterTrends
    \/ web = WebIdle /\ SearchContext

SpecQuery == Init /\ [][NextQuery]_vars

(***************************************************************************)
(* Claims about the queries.                                               *)
(***************************************************************************)
\* C22: get_filtered_trends returns the Trends ordered by score descending,
\* and Trends of equal score ordered by created_at descending, under every
\* combination of filters.
C22_TiesByCreatedAt ==
    web.op = "filter" =>
        \A i, j \in 1..Len(web.result) : i < j =>
            \/ web.result[i].score > web.result[j].score
            \/ /\ web.result[i].score = web.result[j].score
               /\ web.result[i].created_at >= web.result[j].created_at

\* The rows of the table a call with these arguments has to return.
Wanted(rows, category, search, platform, source) ==
    {r \in rows :
        /\ category = "" \/ r.category = category
        /\ platform = "" \/ r.platform = platform
        /\ source = "" \/ r.source = source
        /\ \/ search = ""
           \/ Substring(ToLower(search), ToLower(r.title))
           \/ Substring(ToLower(search), ToLower(r.description))}

\* C23: get_filtered_trends returns exactly the stored Trends that satisfy
\* every supplied filter at once (category, platform and source equal, the
\* search string a case-insensitive substring of the title or of the
\* description), each once; an empty filter restricts nothing.
C23_FiltersConjunctive ==
    web.op = "filter" =>
        LET wanted == Wanted(web.rows, web.category, web.search,
                             web.platform, web.source)
        IN  /\ SeqRange(web.result) = wanted
            /\ Len(web.result) = Cardinality(wanted)

\* A search for "aapl" among the business Trends of twitter returned the one
\* market mover whose title holds "AAPL" and left the other mover and the
\* seeded Trends out.
C23_Witness ==
    /\ web.op = "filter"
    /\ web.category = "business" /\ web.platform = "twitter"
    /\ web.source = "" /\ web.search = "aapl"
    /\ Len(web.result) = 1
    /\ web.result[1].source_id = MakeSourceId("stocks", "AAPL")
    /\ \E r \in web.rows : r.source_id = MakeSourceId("stocks", "MSFT")
    /\ \E r \in web.rows : r.source = "manual"

\* C24: search_trends_for_context with no keyword returns the empty list,
\* whatever the table holds and whatever the limit.
C24_NoKeywordsNoContext ==
    (web.op = "search" /\ web.keywords = {}) => web.result = <<>>

\* The call was made without keywords and with limit 5 on a table that
\* holds seeded Trends and a market mover.
C24_Witness ==
    /\ web.op = "search" /\ web.keywords = {} /\ web.limit = 5
    /\ \E r \in web.rows : r.source = "manual"
    /\ \E r \in web.rows : r.source = "stocks"
    /\ web.result = <<>>

\* C27: extract_trend_keywords returns at most 10 keywords, none twice, and
\* each is a vocabulary term that occurs in the lower-cased question or one
\* of its whitespace-separated words that is longer than 3 characters and
\* is not a stopword.
C27_KeywordsCapped ==
    web.op = "keywords" =>
        LET text == ToLower(web.question)
            words == Split(text)
        IN  /\ ListSize(web.result) <= 10
            /\ \A k \in DOMAIN web.result :
                  /\ web.result[k] = 1
                  /\ \/ k \in TrendTerms /\ Substring(k, text)
                     \/ /\ \E i \in 1..Len(words) : words[i] = k
                        /\ Len(k) > 3
                        /\ k \notin Stopwords

\* A question with twelve distinct keywords, several of them both a term
\* and a word, came back with ten.
C27_Witness ==
    /\ web.op = "keywords"
    /\ Cardinality(DOMAIN KeywordList(web.question)) = 12
    /\ KeywordList(web.question)["tiktok"] = 2
    /\ ListSize(web.result) = 10
    /\ "post" \in DOMAIN web.result

(***************************************************************************)
(* Titles, sources and rank scores of the candidates.                      *)
(***************************************************************************)
\* C25: every candidate a fetcher returns, on its primary or its fallback
\* path, has a non-empty title, also when the provider's entry has a missing
\* or blank title.
C25_TitleNonEmpty ==
    \A c \in Fetched : c.title # ""

\* C26: fetch_all_live_trends skips the unknown names of its list without
\* failing: when it is done the result has an entry for every requested name
\* that is a registered source, whose fetcher was called, and no entry for
\* any other name, wherever in the list the unknown names stand.
C26_UnknownSkipped ==
    /\ agg.pc # "raised"
    /\ agg.pc = "done" =>
          /\ \A s \in SeqRange(agg.sources) :
                s \in Registered => DictHas(agg.results, s) /\ DictHas(agg.returned, s)
          /\ \A i \in 1..Len(agg.results) :
                /\ agg.results[i].key \in Registered
                /\ agg.results[i].key \in SeqRange(agg.sources)
          /\ \A i, j \in 1..Len(agg.results) :
                i # j => agg.results[i].key # agg.results[j].key

\* A call whose list starts with an unknown name is done, with the one
\* entry of the registered source that followed it.
C26_Witness ==
    /\ agg.pc = "done"
    /\ agg.sources = <<"bogus", "news">>
    /\ Len(agg.results) = 1
    /\ agg.results[1].key = "news"
    /\ agg.results[1].val # <<>>

\* Prices around the velocity thresholds, against a previous close of 100.00.
ThresholdPrices == {9700, 9799, 9800, 9801, 9999, 10000, 10001, 10299, 10300, 10301, 11000}
ThresholdClose == 10000

\* The velocity the claim gives a signed change (in hundredths of a percent).
VelocityOfChange(change, velocity) ==
    /\ velocity = "exploding" <=> change > 300
    /\ velocity = "rising" <=> (0 < change /\ change <= 300)
    /\ velocity = "steady" <=> (-200 < change /\ change <= 0)
    /\ velocity = "declining" <=> change <= -200

\* C28: the velocity of a market-movers candidate is decided by the signed
\* percentage change alone: exploding above 3, rising above 0 up to 3, steady
\* above -2 up to 0, declining from -2 down; the score does not enter.
C28_StockVelocityBySign ==
    /\ \A price \in ThresholdPrices \cup PriceValues,
          prev_close \in CloseValues \cup {ThresholdClose} :
          LET change == ChangePct(price, prev_close)
              c == StockCandidate([symbol |-> "AAPL", price |-> price,
                                   change_pct |-> change, kept |-> TRUE])
          IN  VelocityOfChange(change, c.velocity)
    /\ (agg.call.live /\ agg.call.source = "stocks" /\ ~agg.call.env.stub
            /\ agg.call.env.mode = "ok") =>
          LET movers == Movers(agg.call.env.rows)
              items == agg.call.out.items
          IN  \A i \in 1..Len(items) :
                  VelocityOfChange(movers[MoverOf(items[i], movers)].change_pct,
                                   items[i].velocity)

\* A mover that fell by 5 % came back declining with the score 99.0.
C28_Witness ==
    /\ agg.call.live /\ agg.call.source = "stocks"
    /\ \E i \in 1..Len(agg.call.out.items) :
          /\ agg.call.out.items[i].score = 990
          /\ agg.call.out.items[i].velocity = "declining"
          /\ Movers(agg.call.env.rows)
                 [MoverOf(agg.call.out.items[i], Movers(agg.call.env.rows))].change_pct = -500

\* The score each rank-scored path gives the item at index idx, and the
\* minimum score of the path.
RankPaths == {"google_trends", "news", "news_rss", "youtube", "music_rss"}
RankScore(path, idx) ==
    CASE path = "google_trends" -> GoogleCandidate(RowG, idx).score
      [] path = "news" -> NewsCandidate(RowG, idx).score
      [] path = "news_rss" -> NewsRssCandidate(RowG, idx).score
      [] path = "youtube" -> YouTubeCandidate(RowG, idx).score
      [] path = "music_rss" -> MusicRssCandidate(RowG, idx).score
MinimumScore(path) == IF path = "news" THEN 250 ELSE 200

\* The call that came back took a rank-scored path (the charts API scores
\* by listeners).
RankScoredCall ==
    /\ agg.call.live /\ ~agg.call.env.stub
    /\ agg.call.source \in {"google_trends", "news", "youtube", "music"}
    /\ agg.call.source = "music" =>
          \/ agg.call.env.mode # "ok"
          \/ Raises(Take(agg.call.env.rows, MusicCount))

\* C29: in every rank-scored path the scores follow the provider's rank:
\* the first item has the highest score, the score never increases with the
\* rank and decreases strictly while it is above the path's minimum, and it
\* is never below that minimum (25 for the headlines API, 20 elsewhere).
C29_RankScores ==
    /\ \A path \in RankPaths, idx \in 0..MaxRank :
          /\ RankScore(path, idx) >= MinimumScore(path)
          /\ RankScore(path, idx) <= RankScore(path, 0)
          /\ idx < MaxRank =>
                /\ RankScore(path, idx + 1) <= RankScore(path, idx)
                /\ RankScore(path, idx + 1) > MinimumScore(path)
                       => RankScore(path, idx + 1) < RankScore(path, idx)
    /\ RankScoredCall =>
          LET items == agg.call.out.items
          IN  \A i, j \in 1..Len(items) :
                  /\ items[i].score >= 200
                  /\ i < j => items[i].score > items[j].score

\* A feed of two entries came back as two candidates, the first with the
\* higher score; and within MaxRank every path reaches its minimum.
C29_Witness ==
    /\ RankScoredCall
    /\ agg.call.source = "music"
    /\ Len(agg.call.out.items) = 2
    /\ agg.call.out.items[1].score = 800
    /\ agg.call.out.items[2].score = 760
    /\ \A path \in RankPaths : RankScore(path, MaxRank) = MinimumScore(path)

(***************************************************************************)
(* ChatbotView.post: the rate limit kept in the session.  `now` is the     *)
(* clock time.time() reads, in seconds; the POSTs of the session are       *)
(* handled one after the other.                                            *)
(***************************************************************************)
RATE_LIMIT == 20
RateWindow == 60

\* A limit that lets one more request through.
OverLimitStrict(timestamps) == Len(timestamps) > RATE_LIMIT

\* Line 140.
OverLimit(timestamps) == Len(timestamps) >= RATE_LIMIT

\* Line 139: the timestamps less than 60 seconds old at time t.
Recent(timestamps, t) == SelectSeq(timestamps, LAMBDA ts : t - ts < RateWindow)

\* The request bodies: a question, a blank question, and no JSON at all.
Bodies == {"question", "blank", "not json"}
\* Lines 147-158: the status of a request that passed the limit.
StatusOf(body) == IF body = "question" THEN 200 ELSE 400

\* The session before its first POST.  posts, at, status and body describe
\* the last POST handled; accepted is the history of the POSTs that passed
\* the limit.
ChatStart ==
    [op |-> "chat", timestamps |-> <<>>, accepted |-> <<>>,
     posts |-> 0, at |-> 0, status |-> 0, body |-> "none"]

\* ChatbotView.post, lines 135-158.
ChatPost ==
    /\ web.op = "chat"
    /\ web.posts < MaxPosts
    /\ \E body \in Bodies :
         LET timestamps == Recent(web.timestamps, now)
         IN  IF OverLimit(timestamps)
             THEN web' = [web EXCEPT !.posts = @ + 1, !.at = now,
                                     !.status = 429, !.body = "unread"]
             ELSE web' = [web EXCEPT !.posts = @ + 1, !.at = now,
                                     !.status = StatusOf(body), !.body = body,
                                     !.timestamps = Append(timestamps, now),
                                     !.accepted = Append(@, now)]
    /\ UNCHANGED <<store, nextId, now, deps, run, runsLeft, prev, agg, ai>>

\* Time passes between two POSTs.
ClockSteps == {30}
Tick ==
    /\ web.op = "chat"
    /\ \E d \in ClockSteps : now + d <= MaxClock /\ now' = now + d
    /\ UNCHANGED <<store, nextId, deps, run, runsLeft, prev, agg, ai, web>>

InitChat == InitOther /\ agg = AggIdle /\ ai = AiIdle /\ web = ChatStart

NextChat == ChatPost \/ Tick

SpecChat == InitChat /\ [][NextChat]_vars

\* The accepted POSTs made in the 60 seconds that start at time t, and those
\* less than 60 seconds before time t.
AcceptedFrom(accepted, t) ==
    {i \in 1..Len(accepted) : t <= accepted[i] /\ accepted[i] < t + 60}
AcceptedBefore(accepted, t) ==
    {i \in 1..Len(accepted) : t - accepted[i] < 60}

====
